---- MODULE Spec2Model ----
(***************************************************************************)
(* LottaWords: the Letter Boxed solver of backend/src/lottawords/solver.py *)
(* (class LetterBoxedSolver).                                              *)
(*                                                                         *)
(* A string is a sequence of one-character strings, so that str.lower(),   *)
(* word[0], word[-1] and set(word) are computed and not assumed.  A square *)
(* (a Python dict side -> set of letters) is the sequence of its items in  *)
(* insertion order, each a record [side, letters].                         *)
(***************************************************************************)
EXTENDS Integers, Sequences, FiniteSets, TLC

(***************************************************************************)
(* Bounds of the model.                                                    *)
(***************************************************************************)
MaxDict == 3        \* longest dictionary list handed to find_shortest_solution
MaxWordLen == 3     \* longest word handed to is_valid_word on its own
MaxRecase == 2      \* re-casings / extra letters applied to one validator probe
MaxDay == 2         \* 3:05 AM cutoffs the web application lives through

(***************************************************************************)
(* Characters and str.lower()                                              *)
(***************************************************************************)
ascii_uppercase ==
    << "A", "B", "C", "D", "E", "F", "G", "H", "I", "J", "K", "L", "M",
       "N", "O", "P", "Q", "R", "S", "T", "U", "V", "W", "X", "Y", "Z" >>

ascii_lowercase ==
    << "a", "b", "c", "d", "e", "f", "g", "h", "i", "j", "k", "l", "m",
       "n", "o", "p", "q", "r", "s", "t", "u", "v", "w", "x", "y", "z" >>

\* Python values whose type matters: None and lists.
None == [type |-> "NoneType"]

py_list(items) == [type |-> "list", items |-> items]

\* str.lower() of one character: an upper-case letter becomes its lower-case
\* letter, every other character is kept.
lower_table ==
    [c \in { ascii_uppercase[i] : i \in 1..26 } |->
        ascii_lowercase[CHOOSE i \in 1..26 : ascii_uppercase[i] = c]]

lower(c) == IF c \in DOMAIN lower_table THEN lower_table[c] ELSE c

\* str.upper() of one character (used to draw re-cased inputs).
upper_table ==
    [c \in { ascii_lowercase[i] : i \in 1..26 } |->
        ascii_uppercase[CHOOSE i \in 1..26 : ascii_lowercase[i] = c]]

upper(c) == IF c \in DOMAIN upper_table THEN upper_table[c] ELSE c

\* word.lower()
str_lower(word) == [i \in 1..Len(word) |-> lower(word[i])]

\* set(word)
set_of(word) == { word[i] : i \in 1..Len(word) }

\* Position of a character in Python's ordering of the characters used here
\* (other characters before upper-case before lower-case letters).
ord_table ==
    [c \in { ascii_uppercase[i] : i \in 1..26 } \cup { ascii_lowercase[i] : i \in 1..26 } |->
        IF c \in DOMAIN lower_table
        THEN 64 + (CHOOSE i \in 1..26 : ascii_uppercase[i] = c)
        ELSE 96 + (CHOOSE i \in 1..26 : ascii_lowercase[i] = c)]

ord(c) == IF c \in DOMAIN ord_table THEN ord_table[c] ELSE 0

\* ''.join(sorted(letters)) for a set of distinct characters
sorted_join(letters) ==
    [p \in 1..Cardinality(letters) |->
        CHOOSE c \in letters :
            Cardinality({ d \in letters : ord(d) < ord(c) }) = p - 1]

(***************************************************************************)
(* WordValidator: _normalize_square, is_valid_word, covers_all_letters     *)
(***************************************************************************)
\* {letter.lower() for letter in letters} for every side, sides kept in order
normalize_square(square) ==
    [i \in 1..Len(square) |->
        [side |-> square[i].side,
         letters |-> { lower(l) : l \in square[i].letters }]]

\* all_letters: the union of the sides' letter sets
all_letters_of(square) == UNION { square[i].letters : i \in 1..Len(square) }

\* letter_sides: the loops of lines 69-72 write letter_sides[letter] = side for
\* every side in dict order, so the last side holding a letter is the one kept.
letter_sides_of(square) ==
    [l \in all_letters_of(square) |->
        LET last == CHOOSE i \in 1..Len(square) :
                        /\ l \in square[i].letters
                        /\ \A j \in (i + 1)..Len(square) : l \notin square[j].letters
        IN square[last].side]

\* Variant: the check of consecutive letters starts one pair too late.
is_valid_word_late_start(word, square) ==
    IF word = << >>
    THEN FALSE
    ELSE LET w == str_lower(word)
             normalized_square == normalize_square(square)
             all_letters == all_letters_of(normalized_square)
         IN IF \E i \in 1..Len(w) : w[i] \notin all_letters
            THEN FALSE
            ELSE LET letter_sides == letter_sides_of(normalized_square)
                 IN \A i \in 3..Len(w) :
                        letter_sides[w[i - 1]] # letter_sides[w[i]]

\* Variant: the word is compared as written, without word.lower().
is_valid_word_any_case(word, square) ==
    IF word = << >>
    THEN FALSE
    ELSE LET normalized == normalize_square(square)
             all_letters == all_letters_of(normalized)
         IN IF \E i \in 1..Len(word) : word[i] \notin all_letters
            THEN FALSE
            ELSE LET letter_sides == letter_sides_of(normalized)
                 IN \A i \in 2..Len(word) :
                        letter_sides[word[i - 1]] # letter_sides[word[i]]

is_valid_word(word, square) ==
    IF word = << >>
    THEN FALSE
    ELSE LET w == str_lower(word)
             normalized_square == normalize_square(square)
             all_letters == all_letters_of(normalized_square)
         IN IF \E i \in 1..Len(w) : w[i] \notin all_letters
            THEN FALSE
            ELSE LET letter_sides == letter_sides_of(normalized_square)
                 IN \A i \in 2..Len(w) :
                        letter_sides[w[i - 1]] # letter_sides[w[i]]

\* Variant: the used letters must be exactly the puzzle's letters.
covers_all_letters_exact(used_letters, square) ==
    LET used == { lower(l) : l \in used_letters }
        all_letters == { lower(l) : l \in all_letters_of(square) }
    IN all_letters = used

covers_all_letters(used_letters, square) ==
    LET used == { lower(l) : l \in used_letters }
        all_letters == { lower(l) : l \in all_letters_of(square) }
        missing_letters == all_letters \ used
    IN missing_letters = {}

(***************************************************************************)
(* Inputs: the arrangements and the dictionary entries the calls draw from *)
(***************************************************************************)
\* The fixture of tests/test_solver.py.
SampleSquare ==
    << [side |-> "top",    letters |-> {"A", "B", "C"}],
       [side |-> "right",  letters |-> {"D", "E", "F"}],
       [side |-> "bottom", letters |-> {"G", "H", "I"}],
       [side |-> "left",   letters |-> {"J", "K", "L"}] >>

\* The same arrangement written in mixed case.
MixedCaseSquare ==
    << [side |-> "top",    letters |-> {"a", "B", "c"}],
       [side |-> "right",  letters |-> {"d", "e", "F"}],
       [side |-> "bottom", letters |-> {"G", "h", "i"}],
       [side |-> "left",   letters |-> {"j", "K", "l"}] >>

\* An arrangement the solver accepts although B is on two sides.
AmbiguousSquare ==
    << [side |-> "top",    letters |-> {"A", "B", "C"}],
       [side |-> "right",  letters |-> {"D", "E", "F"}],
       [side |-> "bottom", letters |-> {"G", "H", "I", "B"}],
       [side |-> "left",   letters |-> {"J", "K", "L"}] >>

Squares == { SampleSquare, MixedCaseSquare, AmbiguousSquare }

\* Every letter of the square is on exactly one side (case-insensitively).
Unambiguous(square) ==
    \A i, j \in 1..Len(square) :
        i # j => { lower(l) : l \in square[i].letters }
                   \cap { lower(l) : l \in square[j].letters } = {}

AGBHCI == << "A", "G", "B", "H", "C", "I" >>
IJDKELF == << "I", "J", "D", "K", "E", "L", "F" >>
IJDKEL == << "I", "J", "D", "K", "E", "L" >>
LFA == << "L", "F", "A" >>
LFAL == << "L", "F", "A", "L" >>
XYZ == << "X", "Y", "Z" >>
ABC == << "A", "B", "C" >>

WordPool == { AGBHCI, IJDKELF, IJDKEL, LFA, LFAL, XYZ, ABC }

\* A dictionary argument: its Python type and, for a list or tuple, its items.
Lists == UNION { [1..k -> WordPool] : k \in 0..MaxDict }

Dictionaries ==
    { py_list(s) : s \in Lists }
    \cup { None, [type |-> "tuple", items |-> << AGBHCI, IJDKELF >>] }

(***************************************************************************)
(* State                                                                   *)
(***************************************************************************)
VARIABLES
    word_list,          \* self.word_list of the solver instance (line 17)
    pc,                 \* "idle" | "entry" | "search" | "break" | "done" | "probe"
    square,             \* argument of the call in progress (line 118)
    dictionary,         \* argument of the call in progress (line 118)
    playable_words,     \* locals of find_shortest_solution: line 153
    original_case,      \* line 154
    first_letter_map,   \* line 184
    unique_letters_map, \* line 185
    all_puzzle_letters, \* line 201
    queue,              \* line 210
    visited,            \* line 214
    min_solution,       \* line 215
    min_solution_len,   \* line 216
    search_iterations,  \* line 220
    result,             \* the value returned, None while the call runs
    history,            \* what the previous call with these arguments returned
    probe,              \* an is_valid_word / covers_all_letters call and its answer
    probe0,             \* the first such call on these inputs
    suspended,          \* the frame of a second call in progress that is not
                        \* running at the moment, None when there is none
    cache,              \* app.py line 33: cache['puzzle_data'], cache['last_updated']
    scraping_in_progress, \* app.py line 150: the module global, once it exists
    threads,            \* where each thread of the web application is
    today               \* the number of 3:05 AM cutoffs that have passed

solver_vars ==
    << pc, square, dictionary, playable_words, original_case, first_letter_map,
       unique_letters_map, all_puzzle_letters, queue, visited, min_solution,
       min_solution_len, search_iterations, result, history, suspended >>

index_vars ==
    << playable_words, original_case, first_letter_map, unique_letters_map,
       all_puzzle_letters >>

search_vars == << queue, visited, min_solution, min_solution_len, search_iterations >>

probe_vars == << probe, probe0 >>

app_vars == << cache, scraping_in_progress, threads, today >>

vars == << word_list, solver_vars, probe_vars, app_vars >>

Unbound == "unbound"

(***************************************************************************)
(* Python's sorted(): a stable sort of items by keys that are pairs of     *)
(* integers, compared lexicographically.                                   *)
(***************************************************************************)
key_less(k1, k2) == k1[1] < k2[1] \/ (k1[1] = k2[1] /\ k1[2] < k2[2])

sorted(items, keys) ==
    LET n == Len(items)
        rank(i) == 1 + Cardinality({ j \in 1..n :
                          \/ key_less(keys[j], keys[i])
                          \/ (keys[j] = keys[i] /\ j < i) })
    IN [p \in 1..n |-> items[CHOOSE i \in 1..n : rank(i) = p]]

(***************************************************************************)
(* Indexer: lines 129-212 of find_shortest_solution                        *)
(***************************************************************************)
\* "not dictionary or not isinstance(dictionary, list)"
invalid_dictionary(d) ==
    IF d.type = "NoneType"
    THEN TRUE
    ELSE Len(d.items) = 0 \/ d.type # "list"

\* word_source = [str(word) for word in dictionary]; every entry is a str here.
word_source_of(d) == d.items

\* Variant: every non-empty entry is kept, valid or not.
playable_unchecked(word_source, normalized_square) ==
    SelectSeq([i \in 1..Len(word_source) |-> str_lower(word_source[i])],
              LAMBDA w : w # << >>)

\* The loop of lines 160-169: the lower-cased entries that are valid, in
\* dictionary order (an entry is appended every time it occurs).
playable_of(word_source, normalized_square) ==
    SelectSeq([i \in 1..Len(word_source) |-> str_lower(word_source[i])],
              LAMBDA w : w # << >> /\ is_valid_word(w, normalized_square))

\* Variant: the lower-cased word is stored in place of the entry.
original_case_lowered(word_source, normalized_square) ==
    [w \in set_of(playable_of(word_source, normalized_square)) |-> w]

\* original_case[word_lower] = word is executed for every valid entry in
\* dictionary order, so the last spelling of a word is the one kept.
original_case_of(word_source, normalized_square) ==
    [w \in set_of(playable_of(word_source, normalized_square)) |->
        LET last == CHOOSE i \in 1..Len(word_source) :
                        /\ str_lower(word_source[i]) = w
                        /\ \A j \in (i + 1)..Len(word_source) :
                               str_lower(word_source[j]) # w
        IN word_source[last]]

\* playable_words.sort(key=lambda w: (len(w), -len(set(w))))
sort_playable(words) ==
    sorted(words, [i \in 1..Len(words) |->
                      << Len(words[i]), 0 - Cardinality(set_of(words[i])) >>])

\* first_letter_map[first_letter].append(word), in the order of playable_words
first_letter_map_of(words) ==
    [c \in { words[i][1] : i \in 1..Len(words) } |->
        SelectSeq(words, LAMBDA w : w[1] = c)]

\* unique_letters_map[word] = set(word)
unique_letters_map_of(words) == [w \in set_of(words) |-> set_of(w)]

\* all_puzzle_letters, from the square as passed in
all_puzzle_letters_of(sq) == { lower(l) : l \in all_letters_of(sq) }

\* Variant: only the first playable word is seeded.
seed_first_only(words, letters_map) ==
    << [words |-> << words[1] >>, letters |-> letters_map[words[1]]] >>

\* for word in playable_words: queue.append(([word], unique_letters_map[word]))
seed_queue(words, letters_map) ==
    [i \in 1..Len(words) |->
        [words |-> << words[i] >>, letters |-> letters_map[words[i]]]]

(***************************************************************************)
(* SearchEngine: the loop of lines 214-280                                 *)
(***************************************************************************)
max_solution_length == 5
max_iterations == 100000

\* float('inf'), which no chain length reaches: a length that no chain has
\* (a chain of max_solution_length words is not extended, lines 254-255).
Infinity == max_solution_length + 1

\* "while queue and search_iterations < max_iterations"
loop_condition == queue # << >> /\ search_iterations < max_iterations

\* state = (tuple(current_words), ''.join(sorted(used_letters)))
state_key(current) == << current.words, sorted_join(current.letters) >>

\* Variant: the recorded solution is never compared with the state.
dominated_never(current) == FALSE

\* Variant: a state as long as the recorded solution is still processed.
dominated_strictly(current) ==
    IF min_solution # None
    THEN Len(current.words) > min_solution_len
    ELSE FALSE

\* "if min_solution and len(current_words) >= min_solution_len"
dominated(current) ==
    IF min_solution # None
    THEN Len(current.words) >= min_solution_len
    ELSE FALSE

\* branch_limit = 25 if len(current_words) == 1 else 15
branch_limit_of(current_words) == IF Len(current_words) = 1 THEN 25 ELSE 15

\* Variant: the whole list is taken, whatever the limit.
take_all(items, n) == items

\* prioritized_words[:branch_limit]
take(items, n) == SubSeq(items, 1, IF Len(items) < n THEN Len(items) ELSE n)

\* Variant: every playable word is offered, whatever its first letter.
next_words_unchained(current) == playable_words

\* last_letter = current_words[-1][-1]
\* next_words = first_letter_map.get(last_letter, [])
next_words_of(current) ==
    LET last_word == current.words[Len(current.words)]
        last_letter == last_word[Len(last_word)]
    IN IF last_letter \in DOMAIN first_letter_map
       THEN first_letter_map[last_letter]
       ELSE << >>

\* prioritized_words.sort(key=lambda x: (-x[1], len(x[0]))) where x[1] is
\* len(unique_letters_map[word] - used_letters)
prioritized_words_of(current) ==
    LET next_words == next_words_of(current)
    IN sorted(next_words,
              [i \in 1..Len(next_words) |->
                  << 0 - Cardinality(unique_letters_map[next_words[i]]
                                       \ current.letters),
                     Len(next_words[i]) >>])

\* Variant: a successor keeps only the letters of its last word.
successors_forgetting_letters(current) ==
    LET chosen == take(prioritized_words_of(current),
                       branch_limit_of(current.words))
    IN [i \in 1..Len(chosen) |->
           [words |-> Append(current.words, chosen[i]),
            letters |-> unique_letters_map[chosen[i]]]]

\* The states appended to the queue by the loop of lines 276-280.
successors_of(current) ==
    LET chosen == take(prioritized_words_of(current),
                       branch_limit_of(current.words))
    IN [i \in 1..Len(chosen) |->
           [words |-> Append(current.words, chosen[i]),
            letters |-> current.letters \cup unique_letters_map[chosen[i]]]]

(***************************************************************************)
(* ResultFormatter: lines 284-333                                          *)
(***************************************************************************)
\* result = [original_case[word] for word in min_solution]
solution_result(solution) ==
    py_list([i \in 1..Len(solution.items) |-> original_case[solution.items[i]]])

\* best_words = sorted(playable_words, key=lambda w:
\*     (len(set(w).intersection(all_puzzle_letters)), -len(w)))
\* best_word = best_words[-1]
best_word_of(words, puzzle_letters) ==
    LET best_words ==
            sorted(words,
                   [i \in 1..Len(words) |->
                       << Cardinality(set_of(words[i]) \cap puzzle_letters),
                          0 - Len(words[i]) >>])
    IN best_words[Len(best_words)]

\* result = [original_case.get(best_word, best_word)]
partial_result(words, puzzle_letters) ==
    LET best_word == best_word_of(words, puzzle_letters)
    IN py_list(<< IF best_word \in DOMAIN original_case
                  THEN original_case[best_word]
                  ELSE best_word >>)

(***************************************************************************)
(* find_shortest_solution as a state machine                               *)
(***************************************************************************)
\* The locals of a call that has assigned none of them yet.
NoLocals ==
    /\ playable_words' = Unbound
    /\ original_case' = Unbound
    /\ first_letter_map' = Unbound
    /\ unique_letters_map' = Unbound
    /\ all_puzzle_letters' = Unbound
    /\ queue' = Unbound
    /\ visited' = Unbound
    /\ min_solution' = Unbound
    /\ min_solution_len' = Unbound
    /\ search_iterations' = Unbound

\* solver.find_shortest_solution(sq, d) is called on the idle instance.
Call(sq, d) ==
    /\ pc = "idle"
    /\ pc' = "entry"
    /\ square' = sq
    /\ dictionary' = d
    /\ result' = None
    /\ NoLocals
    /\ UNCHANGED << word_list, app_vars, history, probe_vars, suspended >>

\* The same call is made again on the same instance once it has returned;
\* what the locals of the first call held is still in memory until reassigned.
CallAgain ==
    /\ pc = "done"
    /\ history = None
    /\ history' = [type |-> "returned", result |-> result]
    /\ pc' = "entry"
    /\ result' = None
    /\ UNCHANGED << word_list, app_vars, square, dictionary, index_vars, search_vars,
                    probe_vars, suspended >>

\* Variant: None is returned for an unusable dictionary.
rejected_result_none == None

\* line 132: return []
rejected_result == py_list(<< >>)

\* lines 130-132: return []
RejectDictionary ==
    /\ pc = "entry"
    /\ invalid_dictionary(dictionary)
    /\ result' = rejected_result
    /\ pc' = "done"
    /\ UNCHANGED << word_list, app_vars, square, dictionary, index_vars, search_vars,
                    history, probe_vars, suspended >>

\* Variant: None is returned when no entry is valid.
NoPlayableWordsReturnsNone ==
    /\ pc = "entry"
    /\ ~invalid_dictionary(dictionary)
    /\ LET words == playable_of(word_source_of(dictionary),
                                normalize_square(square))
       IN /\ words = << >>
          /\ playable_words' = words
          /\ original_case' = original_case_of(word_source_of(dictionary),
                                               normalize_square(square))
    /\ result' = None
    /\ pc' = "done"
    /\ UNCHANGED << word_list, app_vars, square, dictionary, first_letter_map,
                    unique_letters_map, all_puzzle_letters, search_vars,
                    history, probe_vars, suspended >>

\* lines 136-178 when no entry is valid: return []
NoPlayableWords ==
    /\ pc = "entry"
    /\ ~invalid_dictionary(dictionary)
    /\ LET words == playable_of(word_source_of(dictionary),
                                normalize_square(square))
       IN /\ words = << >>
          /\ playable_words' = words
          /\ original_case' = original_case_of(word_source_of(dictionary),
                                               normalize_square(square))
    /\ result' = py_list(<< >>)
    /\ pc' = "done"
    /\ UNCHANGED << word_list, app_vars, square, dictionary, first_letter_map,
                    unique_letters_map, all_puzzle_letters, search_vars,
                    history, probe_vars, suspended >>

\* Variant: the visited set outlives the call that filled it.
InitSearchStaleVisited ==
    /\ visited' = IF history = None THEN {} ELSE visited
    /\ min_solution' = None
    /\ min_solution_len' = Infinity
    /\ search_iterations' = 0

\* lines 214-221: visited, min_solution, min_solution_len, search_iterations
InitSearch ==
    /\ visited' = {}
    /\ min_solution' = None
    /\ min_solution_len' = Infinity
    /\ search_iterations' = 0

\* lines 136-221: filter, sort, index, seed the queue
BuildIndex ==
    /\ pc = "entry"
    /\ ~invalid_dictionary(dictionary)
    /\ LET word_source == word_source_of(dictionary)
           normalized_square == normalize_square(square)
           words == playable_of(word_source, normalized_square)
           sorted_words == sort_playable(words)
       IN /\ words # << >>
          /\ playable_words' = sorted_words
          /\ original_case' = original_case_of(word_source, normalized_square)
          /\ first_letter_map' = first_letter_map_of(sorted_words)
          /\ unique_letters_map' = unique_letters_map_of(sorted_words)
          /\ all_puzzle_letters' = all_puzzle_letters_of(square)
          /\ queue' = seed_queue(sorted_words, unique_letters_map_of(sorted_words))
    /\ InitSearch
    /\ pc' = "search"
    /\ UNCHANGED << word_list, app_vars, square, dictionary, result, history, probe_vars, suspended >>

\* lines 224-230: the state cannot improve on the recorded solution
SkipDominated ==
    /\ pc = "search"
    /\ loop_condition
    /\ dominated(Head(queue))
    /\ search_iterations' = search_iterations + 1
    /\ queue' = Tail(queue)
    /\ UNCHANGED << word_list, app_vars, pc, square, dictionary, index_vars, visited,
                    min_solution, min_solution_len, result, history, probe_vars, suspended >>

\* Variant: a state that has been seen is expanded again.
SkipVisitedExpands ==
    /\ pc = "search"
    /\ loop_condition
    /\ ~dominated(Head(queue))
    /\ state_key(Head(queue)) \in visited
    /\ search_iterations' = search_iterations + 1
    /\ queue' = Tail(queue) \o successors_of(Head(queue))
    /\ UNCHANGED << word_list, app_vars, pc, square, dictionary, index_vars, visited,
                    min_solution, min_solution_len, result, history, probe_vars, suspended >>

\* lines 232-234: the state has been seen
SkipVisited ==
    /\ pc = "search"
    /\ loop_condition
    /\ ~dominated(Head(queue))
    /\ state_key(Head(queue)) \in visited
    /\ search_iterations' = search_iterations + 1
    /\ queue' = Tail(queue)
    /\ UNCHANGED << word_list, app_vars, pc, square, dictionary, index_vars, visited,
                    min_solution, min_solution_len, result, history, probe_vars, suspended >>

\* Variant: the loop goes on after a solution of two words or fewer.
RecordSolutionNoBreak ==
    /\ pc = "search"
    /\ loop_condition
    /\ LET current == Head(queue)
       IN /\ ~dominated(current)
          /\ state_key(current) \notin visited
          /\ all_puzzle_letters \subseteq current.letters
          /\ visited' = visited \cup { state_key(current) }
          /\ IF covers_all_letters(current.letters, square)
             THEN /\ min_solution' = py_list(current.words)
                  /\ min_solution_len' = Len(current.words)
                  /\ pc' = "search"
             ELSE UNCHANGED << min_solution, min_solution_len, pc >>
    /\ search_iterations' = search_iterations + 1
    /\ queue' = Tail(queue)
    /\ UNCHANGED << word_list, app_vars, square, dictionary, index_vars, result, history,
                    probe_vars, suspended >>

\* Variant: a state that covers the puzzle is expanded like any other.
RecordSolutionExpands ==
    /\ pc = "search"
    /\ loop_condition
    /\ LET current == Head(queue)
       IN /\ ~dominated(current)
          /\ state_key(current) \notin visited
          /\ all_puzzle_letters \subseteq current.letters
          /\ visited' = visited \cup { state_key(current) }
          /\ IF covers_all_letters(current.letters, square)
             THEN /\ min_solution' = py_list(current.words)
                  /\ min_solution_len' = Len(current.words)
                  /\ pc' = IF Len(current.words) <= 2 THEN "break" ELSE "search"
             ELSE UNCHANGED << min_solution, min_solution_len, pc >>
          /\ queue' = Tail(queue) \o successors_of(current)
    /\ search_iterations' = search_iterations + 1
    /\ UNCHANGED << word_list, app_vars, square, dictionary, index_vars, result, history,
                    probe_vars, suspended >>

\* lines 235-251: the state covers the puzzle; break at two words or fewer.
\* (The else branch of line 249 needs a state that passes issubset and fails
\* covers_all_letters, which compare the same two sets.)
RecordSolution ==
    /\ pc = "search"
    /\ loop_condition
    /\ LET current == Head(queue)
       IN /\ ~dominated(current)
          /\ state_key(current) \notin visited
          /\ all_puzzle_letters \subseteq current.letters
          /\ visited' = visited \cup { state_key(current) }
          /\ IF covers_all_letters(current.letters, square)
             THEN /\ min_solution' = py_list(current.words)
                  /\ min_solution_len' = Len(current.words)
                  /\ pc' = IF Len(current.words) <= 2 THEN "break" ELSE "search"
             ELSE UNCHANGED << min_solution, min_solution_len, pc >>
    /\ search_iterations' = search_iterations + 1
    /\ queue' = Tail(queue)
    /\ UNCHANGED << word_list, app_vars, square, dictionary, index_vars, result, history,
                    probe_vars, suspended >>

\* Variant: a chain of max_solution_length words is expanded like any other.
DepthCappedExpands ==
    /\ pc = "search"
    /\ loop_condition
    /\ LET current == Head(queue)
       IN /\ ~dominated(current)
          /\ state_key(current) \notin visited
          /\ ~(all_puzzle_letters \subseteq current.letters)
          /\ Len(current.words) >= max_solution_length
          /\ visited' = visited \cup { state_key(current) }
          /\ queue' = Tail(queue) \o successors_of(current)
    /\ search_iterations' = search_iterations + 1
    /\ UNCHANGED << word_list, app_vars, pc, square, dictionary, index_vars, min_solution,
                    min_solution_len, result, history, probe_vars, suspended >>

\* lines 253-255: the chain has max_solution_length words
DepthCapped ==
    /\ pc = "search"
    /\ loop_condition
    /\ LET current == Head(queue)
       IN /\ ~dominated(current)
          /\ state_key(current) \notin visited
          /\ ~(all_puzzle_letters \subseteq current.letters)
          /\ Len(current.words) >= max_solution_length
          /\ visited' = visited \cup { state_key(current) }
    /\ search_iterations' = search_iterations + 1
    /\ queue' = Tail(queue)
    /\ UNCHANGED << word_list, app_vars, pc, square, dictionary, index_vars, min_solution,
                    min_solution_len, result, history, probe_vars, suspended >>

\* Variant: the successors are put at the front of the queue.
ExpandDepthFirst ==
    /\ pc = "search"
    /\ loop_condition
    /\ LET current == Head(queue)
       IN /\ ~dominated(current)
          /\ state_key(current) \notin visited
          /\ ~(all_puzzle_letters \subseteq current.letters)
          /\ Len(current.words) < max_solution_length
          /\ visited' = visited \cup { state_key(current) }
          /\ queue' = successors_of(current) \o Tail(queue)
    /\ search_iterations' = search_iterations + 1
    /\ UNCHANGED << word_list, app_vars, pc, square, dictionary, index_vars, min_solution,
                    min_solution_len, result, history, probe_vars, suspended >>

\* Variant: used_letters is updated in place ("used_letters |= ..."), so the
\* set a seed shares with unique_letters_map grows with every successor.
ExpandInPlace ==
    /\ pc = "search"
    /\ loop_condition
    /\ LET current == Head(queue)
           chosen == take(prioritized_words_of(current),
                          branch_limit_of(current.words))
           grown == current.letters
                      \cup UNION { unique_letters_map[chosen[i]] :
                                     i \in 1..Len(chosen) }
       IN /\ ~dominated(current)
          /\ state_key(current) \notin visited
          /\ ~(all_puzzle_letters \subseteq current.letters)
          /\ Len(current.words) < max_solution_length
          /\ visited' = visited \cup { state_key(current) }
          /\ queue' = Tail(queue)
                        \o [i \in 1..Len(chosen) |->
                               [words |-> Append(current.words, chosen[i]),
                                letters |-> grown]]
          /\ unique_letters_map' =
                IF Len(current.words) = 1
                THEN [unique_letters_map EXCEPT ![current.words[1]] = grown]
                ELSE unique_letters_map
    /\ search_iterations' = search_iterations + 1
    /\ UNCHANGED << word_list, app_vars, pc, square, dictionary, playable_words,
                    original_case, first_letter_map, all_puzzle_letters,
                    min_solution, min_solution_len, result, history, probe_vars,
                    suspended >>

\* lines 257-280: the state is expanded
Expand ==
    /\ pc = "search"
    /\ loop_condition
    /\ LET current == Head(queue)
       IN /\ ~dominated(current)
          /\ state_key(current) \notin visited
          /\ ~(all_puzzle_letters \subseteq current.letters)
          /\ Len(current.words) < max_solution_length
          /\ visited' = visited \cup { state_key(current) }
          /\ queue' = Tail(queue) \o successors_of(current)
    /\ search_iterations' = search_iterations + 1
    /\ UNCHANGED << word_list, app_vars, pc, square, dictionary, index_vars, min_solution,
                    min_solution_len, result, history, probe_vars, suspended >>

\* Variant: the loop may be left while states are still queued.
search_ended_anytime == pc = "break" \/ pc = "search"

\* The loop is over: by break, or because its condition is false.
search_ended == pc = "break" \/ (pc = "search" /\ ~loop_condition)

\* lines 286-305, 323-333: the recorded solution in its original case
ReturnSolution ==
    /\ search_ended
    /\ min_solution # None
    /\ result' = solution_result(min_solution)
    /\ pc' = "done"
    /\ UNCHANGED << word_list, app_vars, square, dictionary, index_vars, search_vars,
                    history, probe_vars, suspended >>

\* lines 306-320, 323-333: the single best word
ReturnPartial ==
    /\ search_ended
    /\ min_solution = None
    /\ result' = partial_result(playable_words, all_puzzle_letters)
    /\ pc' = "done"
    /\ UNCHANGED << word_list, app_vars, square, dictionary, index_vars, search_vars,
                    history, probe_vars, suspended >>

(***************************************************************************)
(* The web application (app.py): its module globals and its threads        *)
(***************************************************************************)
\* The threads that handle /api/puzzle requests and the thread on which the
\* BackgroundScheduler runs its job (lines 233-246).
RequestThreads == { "request_1", "request_2" }

SchedulerThread == "scheduler"

Threads == RequestThreads \cup { SchedulerThread }

\* 'scraping_in_progress' not in globals() (line 153)
NotInGlobals == "not in globals"

\* lines 33-36: cache = {'puzzle_data': None, 'last_updated': None}
CacheEmpty == [puzzle_data |-> None, last_updated |-> None]

\* A thread that is running none of the application's functions.
idle_thread == [pc |-> "idle", response |-> "none", fetched |-> 0]

\* The module globals once lines 29-38 have run.
AppAtImport ==
    /\ cache = CacheEmpty
    /\ scraping_in_progress = NotInGlobals
    /\ threads = [t \in Threads |-> idle_thread]
    /\ today = 0

Init ==
    /\ word_list = << >>
    /\ pc = "idle"
    /\ square = Unbound
    /\ dictionary = Unbound
    /\ playable_words = Unbound
    /\ original_case = Unbound
    /\ first_letter_map = Unbound
    /\ unique_letters_map = Unbound
    /\ all_puzzle_letters = Unbound
    /\ queue = Unbound
    /\ visited = Unbound
    /\ min_solution = Unbound
    /\ min_solution_len = Unbound
    /\ search_iterations = Unbound
    /\ result = None
    /\ history = None
    /\ probe = Unbound
    /\ probe0 = Unbound
    /\ suspended = None
    /\ AppAtImport

\* A caller hands the solver one of the arrangements and dictionaries.
CallSolver ==
    /\ pc = "idle"
    /\ \E sq \in Squares, d \in Dictionaries : Call(sq, d)

Next ==
    \/ CallSolver
    \/ CallAgain
    \/ RejectDictionary
    \/ NoPlayableWords
    \/ BuildIndex
    \/ SkipDominated
    \/ SkipVisited
    \/ RecordSolution
    \/ DepthCapped
    \/ Expand
    \/ ReturnSolution
    \/ ReturnPartial

Spec == Init /\ [][Next]_vars

(***************************************************************************)
(* Properties of find_shortest_solution (checked under Spec)               *)
(***************************************************************************)
Returned == pc = "done"

\* The call ran the search (the dictionary was usable and had a valid entry).
Searched ==
    IF invalid_dictionary(dictionary) THEN FALSE ELSE playable_words # << >>

last_of(word) == word[Len(word)]

\* C1: a non-empty result that comes from the search (min_solution was set,
\* so it is not the single-word fallback) consists of words that are valid on
\* the square, each word after the first begins with the letter the word
\* before it ends with (compared in lower case), and every letter of the
\* square occurs in some returned word.
C1_SearchResultIsCoveringChain ==
    (Returned /\ Searched)
        => (min_solution # None
            => LET r == result.items
               IN /\ Len(r) > 0
                  /\ \A i \in 1..Len(r) : is_valid_word(r[i], square)
                  /\ \A i \in 1..(Len(r) - 1) :
                         lower(last_of(r[i])) = lower(r[i + 1][1])
                  /\ \A l \in all_letters_of(square) :
                         \E i \in 1..Len(r) : \E k \in 1..Len(r[i]) :
                             lower(r[i][k]) = lower(l))

C1_Witness ==
    /\ Returned
    /\ Searched
    /\ min_solution # None
    /\ Len(result.items) = 3

\* Two valid entries of the dictionary chain and together cover the square.
TwoWordCoverExists ==
    IF dictionary = None
    THEN FALSE
    ELSE \E i, j \in 1..Len(dictionary.items) :
            LET w1 == dictionary.items[i]
                w2 == dictionary.items[j]
            IN /\ is_valid_word(w1, square)
               /\ is_valid_word(w2, square)
               /\ lower(last_of(w1)) = lower(w2[1])
               /\ \A l \in all_letters_of(square) :
                      \E c \in set_of(w1) \cup set_of(w2) : lower(c) = lower(l)

NoEntryPlayable ==
    \A i \in 1..Len(dictionary.items) : ~is_valid_word(dictionary.items[i], square)

Characters ==
    { ascii_uppercase[i] : i \in 1..26 } \cup { ascii_lowercase[i] : i \in 1..26 }

C6_ScenarioA ==
    (Returned /\ square = SampleSquare
              /\ dictionary = py_list(<< AGBHCI, IJDKELF >>))
        => result = py_list(<< AGBHCI, IJDKELF >>)

C6_Witness ==
    /\ Returned
    /\ square = SampleSquare
    /\ dictionary = py_list(<< AGBHCI, IJDKELF >>)
    /\ result = py_list(<< AGBHCI, IJDKELF >>)
    /\ min_solution = py_list(<< str_lower(AGBHCI), str_lower(IJDKELF) >>)

\* Number of the square's letters that occur in a lower-cased word.
overlap(word) ==
    Cardinality({ l \in all_letters_of(square) :
                    \E k \in 1..Len(word) : word[k] = lower(l) })

\* C7 (as claimed): when the search ends without a covering chain, the call
\* returns exactly one word, a valid entry whose letters overlap the square's
\* letters the most, and a longest one among the valid entries of that overlap.
C7_FallbackPrefersLongerWord ==
    (Returned /\ Searched /\ Unambiguous(square))
        => (min_solution = None
            => /\ Len(result.items) = 1
               /\ LET w == str_lower(result.items[1])
                  IN /\ is_valid_word(w, square)
                     /\ \A i \in 1..Len(playable_words) :
                            LET v == playable_words[i]
                            IN \/ overlap(v) < overlap(w)
                               \/ (overlap(v) = overlap(w) /\ Len(v) <= Len(w)))

\* C10: a call repeated on the same instance with the same square and the
\* same dictionary returns what the first call returned.
C10_RepeatedCallReturnsTheSame ==
    Returned => (history # None => result = history.result)

C10_Witness ==
    /\ Returned
    /\ history # None
    /\ Len(result.items) = 2
    /\ result = history.result

(***************************************************************************)
(* WordValidator on its own: is_valid_word and covers_all_letters are      *)
(* called on drawn inputs, and again after an input has been re-cased or   *)
(* the used letters have been given a letter that is not on the square.    *)
(***************************************************************************)
ProbeLetters == { "A", "B", "g", "X" }

ProbeWords == UNION { [1..k -> ProbeLetters] : k \in 0..MaxWordLen }

SampleLetters == all_letters_of(SampleSquare)

UsedLetterSets ==
    { SampleLetters \ D : D \in SUBSET { "A", "L" } }
    \cup { { lower(l) : l \in SampleLetters \ D } : D \in SUBSET { "A", "L" } }
    \cup { {}, { "A", "B", "C", "D", "E", "F" } }

ExtraLetters == { "X", "z" }

\* str.swapcase() of one character
swapcase(c) == IF c \in DOMAIN lower_table THEN lower_table[c] ELSE upper(c)

\* The answer of the function the probe names, on the probe's arguments.
answer_of(p) ==
    IF p.fn = "is_valid_word"
    THEN is_valid_word(p.word, p.square)
    ELSE covers_all_letters(p.used_letters, p.square)

InitValidator ==
    /\ word_list = << >>
    /\ pc = "probe"
    /\ square = Unbound
    /\ dictionary = Unbound
    /\ playable_words = Unbound
    /\ original_case = Unbound
    /\ first_letter_map = Unbound
    /\ unique_letters_map = Unbound
    /\ all_puzzle_letters = Unbound
    /\ queue = Unbound
    /\ visited = Unbound
    /\ min_solution = Unbound
    /\ min_solution_len = Unbound
    /\ search_iterations = Unbound
    /\ result = None
    /\ history = None
    /\ probe \in
         { [fn |-> "is_valid_word", word |-> w, used_letters |-> {},
            square |-> sq, answered |-> FALSE, returned |-> FALSE, steps |-> 0] :
              w \in ProbeWords, sq \in Squares }
         \cup
         { [fn |-> "covers_all_letters", word |-> << >>, used_letters |-> u,
            square |-> sq, answered |-> FALSE, returned |-> FALSE, steps |-> 0] :
              u \in UsedLetterSets, sq \in Squares }
    /\ probe0 = probe
    /\ suspended = None
    /\ AppAtImport

\* solver.is_valid_word(word, square)
CallIsValidWord ==
    /\ pc = "probe"
    /\ probe.fn = "is_valid_word"
    /\ ~probe.answered
    /\ probe' = [probe EXCEPT !.answered = TRUE,
                              !.returned = is_valid_word(probe.word, probe.square)]
    /\ probe0' = probe'
    /\ UNCHANGED << word_list, app_vars, solver_vars >>

\* solver.covers_all_letters(used_letters, square)
CallCoversAllLetters ==
    /\ pc = "probe"
    /\ probe.fn = "covers_all_letters"
    /\ ~probe.answered
    /\ probe' = [probe EXCEPT !.answered = TRUE,
                              !.returned = covers_all_letters(probe.used_letters,
                                                              probe.square)]
    /\ probe0' = probe'
    /\ UNCHANGED << word_list, app_vars, solver_vars >>

\* The function is called again on changed arguments.
Reprobe(p) ==
    /\ pc = "probe"
    /\ probe.answered
    /\ probe.steps < MaxRecase
    /\ probe' = [p EXCEPT !.steps = probe.steps + 1, !.returned = answer_of(p)]
    /\ UNCHANGED << word_list, app_vars, solver_vars, probe0 >>

\* is_valid_word with one letter of the word in the other case
RecaseWord ==
    /\ probe.fn = "is_valid_word"
    /\ \E i \in 1..Len(probe.word) :
          Reprobe([probe EXCEPT !.word[i] = swapcase(probe.word[i])])

\* either function with the letters of one side in the other case
RecaseSide ==
    \E i \in 1..Len(probe.square) :
        Reprobe([probe EXCEPT !.square[i].letters =
                     { swapcase(l) : l \in probe.square[i].letters }])

\* covers_all_letters with one used letter in the other case
RecaseUsed ==
    /\ probe.fn = "covers_all_letters"
    /\ \E l \in probe.used_letters :
          Reprobe([probe EXCEPT !.used_letters =
                       (probe.used_letters \ { l }) \cup { swapcase(l) }])

\* covers_all_letters with one more used letter, not a letter of the square
AddExtraLetter ==
    /\ probe.fn = "covers_all_letters"
    /\ \E c \in ExtraLetters \ probe.used_letters :
          Reprobe([probe EXCEPT !.used_letters = probe.used_letters \cup { c }])

NextValidator ==
    \/ CallIsValidWord
    \/ CallCoversAllLetters
    \/ RecaseWord
    \/ RecaseSide
    \/ RecaseUsed
    \/ AddExtraLetter

SpecValidator == InitValidator /\ [][NextValidator]_vars

(***************************************************************************)
(* Properties of the WordValidator (checked under SpecValidator)           *)
(***************************************************************************)
\* The sides of the square that hold the letter, compared in lower case.
sides_holding(c, sq) ==
    { i \in 1..Len(sq) : \E l \in sq[i].letters : lower(l) = lower(c) }

Answered(fn) == pc = "probe" /\ probe.fn = fn /\ probe.answered

\* C3: on a square whose letters are each on one side, is_valid_word returns
\* true exactly when the word is non-empty, each of its letters is on some
\* side, and no two consecutive letters are on the same side.
C3_ValidIffPlayable ==
    (Answered("is_valid_word") /\ Unambiguous(probe.square))
        => (probe.returned
            <=> /\ probe.word # << >>
                /\ \A k \in 1..Len(probe.word) :
                       sides_holding(probe.word[k], probe.square) # {}
                /\ \A k \in 1..(Len(probe.word) - 1) :
                       sides_holding(probe.word[k], probe.square)
                         \cap sides_holding(probe.word[k + 1], probe.square) = {})

C3_Witness ==
    /\ Answered("is_valid_word")
    /\ Unambiguous(probe.square)
    /\ probe.returned
    /\ Len(probe.word) = 3

\* C8: covers_all_letters returns true exactly when every letter of every
\* side is among the used letters, compared in lower case; used letters that
\* are not on the square, and the case of the letters, do not change it.
C8_CoversIffAllLettersUsed ==
    Answered("covers_all_letters")
        => /\ probe.returned
               <=> \A i \in 1..Len(probe.square) : \A l \in probe.square[i].letters :
                       \E u \in probe.used_letters : lower(u) = lower(l)
           /\ probe.returned = probe0.returned

C8_Witness ==
    /\ Answered("covers_all_letters")
    /\ probe.returned
    /\ "X" \in probe.used_letters
    /\ "X" \notin probe0.used_letters

\* C9: is_valid_word answers the same for a word and a square as for the
\* same word and the same square written in another case.
C9_ValidityIgnoresCase ==
    Answered("is_valid_word")
        => ((/\ str_lower(probe.word) = str_lower(probe0.word)
             /\ normalize_square(probe.square) = normalize_square(probe0.square))
            => probe.returned = probe0.returned)

C9_Witness ==
    /\ Answered("is_valid_word")
    /\ probe.word # probe0.word
    /\ probe.square # probe0.square
    /\ probe.returned
    /\ Len(probe.word) = 2

\* C11 (as claimed): an arrangement with a letter on more than one side is
\* rejected and no letter of it is resolved to one of its sides, so
\* is_valid_word never declares playable, on such an arrangement, a word with
\* two consecutive letters that one side holds both of.
C11_AmbiguousArrangementIsRejected ==
    (Answered("is_valid_word") /\ ~Unambiguous(probe.square))
        => ((\E k \in 1..(Len(probe.word) - 1) :
                sides_holding(probe.word[k], probe.square)
                  \cap sides_holding(probe.word[k + 1], probe.square) # {})
            => ~probe.returned)

(***************************************************************************)
(* find_shortest_solution on dictionaries that hold several spellings of   *)
(* one word and one-letter entries.                                        *)
(***************************************************************************)
Agbhci == << "A", "g", "b", "h", "c", "i" >>
A == << "A" >>

SpellingPool == { AGBHCI, Agbhci, IJDKELF, IJDKEL, LFA, A, XYZ }

SpellingLists == UNION { [1..k -> SpellingPool] : k \in 0..MaxDict }

SpellingSquares == { SampleSquare, MixedCaseSquare }

\* A caller hands the solver a list of such entries.
CallSpellings ==
    /\ pc = "idle"
    /\ \E sq \in SpellingSquares, items \in SpellingLists : Call(sq, py_list(items))

NextSpellings ==
    \/ CallSpellings
    \/ RejectDictionary
    \/ NoPlayableWords
    \/ BuildIndex
    \/ SkipDominated
    \/ SkipVisited
    \/ RecordSolution
    \/ DepthCapped
    \/ Expand
    \/ ReturnSolution
    \/ ReturnPartial

SpecSpellings == Init /\ [][NextSpellings]_vars

\* The first entry of the dictionary that lower-cases to the word.
first_spelling(w) ==
    LET first == CHOOSE i \in 1..Len(dictionary.items) :
                     /\ str_lower(dictionary.items[i]) = w
                     /\ \A j \in 1..(i - 1) : str_lower(dictionary.items[j]) # w
    IN dictionary.items[first]

\* C12 (as claimed): every word of a returned result is spelled as the first
\* entry of the dictionary that lower-cases to that word; a later entry with
\* another spelling never replaces it.
C12_FirstSpellingIsReturned ==
    (Returned /\ Searched)
        => \A i \in 1..Len(result.items) :
               result.items[i] = first_spelling(str_lower(result.items[i]))

\* C13 (as claimed): one-letter entries are not admitted: no playable word,
\* no chain in the queue and no returned result holds a word of length 1.
C13_NoSingleLetterWord ==
    (pc \in { "search", "break", "done" } /\ Searched)
        => /\ \A i \in 1..Len(playable_words) : Len(playable_words[i]) # 1
           /\ \A q \in 1..Len(queue) : \A i \in 1..Len(queue[q].words) :
                  Len(queue[q].words[i]) # 1
           /\ \A i \in 1..Len(result.items) : Len(result.items[i]) # 1

(***************************************************************************)
(* Termination.  find_shortest_solution is synchronous: once it is called  *)
(* the interpreter executes its statements one after the other, so a step  *)
(* of the call that is possible is eventually taken.  Nothing obliges a    *)
(* caller to call.                                                         *)
(***************************************************************************)
Run ==
    \/ RejectDictionary
    \/ NoPlayableWords
    \/ BuildIndex
    \/ SkipDominated
    \/ SkipVisited
    \/ RecordSolution
    \/ DepthCapped
    \/ Expand
    \/ ReturnSolution
    \/ ReturnPartial

InLoop == pc \in { "search", "break" }

\* What every step of a call changes: where the call is, or how many states
\* its loop has dequeued.
progress == << pc, IF InLoop THEN search_iterations ELSE 0 >>

\* The state in which find_shortest_solution(SampleSquare, d) starts on a new
\* instance.  The locals hold the values their first assignments give them
\* (lines 153-154, 184-185, 201, 210, 214-220); no statement reads a local
\* before that assignment.
InitCalled ==
    /\ word_list = << >>
    /\ pc = "entry"
    /\ square = SampleSquare
    /\ dictionary \in Dictionaries
    /\ playable_words = << >>
    /\ original_case = << >>
    /\ first_letter_map = << >>
    /\ unique_letters_map = << >>
    /\ all_puzzle_letters = {}
    /\ queue = << >>
    /\ visited = {}
    /\ min_solution = None
    /\ min_solution_len = Infinity
    /\ search_iterations = 0
    /\ result = None
    /\ history = None
    /\ probe = Unbound
    /\ probe0 = Unbound
    /\ suspended = None
    /\ AppAtImport

\* The straight-line part of the call (lines 129-221) is left.
Prelude == pc = "entry" /\ pc' \in { "search", "done" }

\* The loop of lines 223-280 and the statements after it.
Loop ==
    \/ SkipDominated
    \/ SkipVisited
    \/ RecordSolution
    \/ DepthCapped
    \/ Expand
    \/ ReturnSolution
    \/ ReturnPartial

SpecTermination ==
    InitCalled /\ [][Run]_vars /\ WF_pc(Prelude) /\ WF_progress(Loop)

\* The queue is empty, max_iterations states have been dequeued, or a chain of
\* at most 2 words that covers the square is recorded.
LoopMustEnd ==
    IF queue = << >>
    THEN TRUE
    ELSE IF search_iterations >= max_iterations
         THEN TRUE
         ELSE IF min_solution = None
              THEN FALSE
              ELSE /\ min_solution_len <= 2
                   /\ all_puzzle_letters
                        \subseteq UNION { set_of(min_solution.items[i]) :
                                            i \in 1..Len(min_solution.items) }

NothingToPlay ==
    IF dictionary.type = "list" THEN NoEntryPlayable ELSE FALSE

Dequeuing ==
    IF pc = "search"
    THEN IF queue = << >> THEN FALSE ELSE search_iterations < max_iterations
    ELSE FALSE

\* C17: the state dequeued right after another one has at least as many words
\* as it, so the chain lengths of the dequeued states never decrease.
C17_DequeuedLengthsNeverDecrease ==
    [][Dequeuing
         => ((pc' = "search" /\ queue' # << >>)
             => Len(Head(queue').words) >= Len(Head(queue).words))]_progress

C17_Witness ==
    /\ Dequeuing
    /\ search_iterations >= 2 * MaxDict
    /\ Len(Head(queue).words) = 3
    /\ Len(queue[Len(queue)].words) = 4

\* C18: every chain in the queue is made of words valid on the square, each
\* word after the first begins with the last letter of the word before it, and
\* its used letters are exactly the letters that occur in its words.
C18_QueuedChainsAreWellFormed ==
    InLoop
        => \A q \in 1..Len(queue) :
               LET chain == queue[q].words
               IN /\ Len(chain) >= 1
                  /\ \A i \in 1..Len(chain) : is_valid_word(chain[i], square)
                  /\ \A i \in 1..(Len(chain) - 1) :
                         chain[i + 1][1] = last_of(chain[i])
                  /\ queue[q].letters
                       = UNION { set_of(chain[i]) : i \in 1..Len(chain) }

C18_Witness ==
    /\ InLoop
    /\ \E q \in 1..Len(queue) :
          /\ Len(queue[q].words) = 3
          /\ queue[q].words[1] # queue[q].words[2]
          /\ set_of(queue[q].words[1]) \cap set_of(queue[q].words[3]) # {}

\* C19: when a solution of L words is recorded and the state dequeued has L
\* words or more, the state is dropped at once: it is not added to visited,
\* the recorded solution stays, and nothing is appended to the queue.
C19_DominatedStateIsDiscarded ==
    [][Dequeuing
         => IF min_solution = None
            THEN TRUE
            ELSE Len(Head(queue).words) >= Len(min_solution.items)
                    => /\ visited' = visited
                       /\ min_solution' = min_solution
                       /\ min_solution_len' = min_solution_len
                       /\ queue' = Tail(queue)
                       /\ pc' = "search"]_progress

C19_Witness ==
    /\ pc = "search"
    /\ min_solution # None
    /\ Len(min_solution.items) = 3
    /\ queue = << >>
    /\ \A i, j \in 1..Len(playable_words) :
           i # j => playable_words[i] # playable_words[j]
    /\ search_iterations > Cardinality(visited)

\* C20: once a covering chain of at most 2 words is recorded, the loop does
\* nothing more: the next step of the call returns that chain (in the
\* spelling of the dictionary) and the queue, visited and the number of
\* states dequeued are as they were when the chain was recorded.
C20_ShortSolutionStopsTheSearch ==
    [][InLoop
         => IF min_solution = None
            THEN TRUE
            ELSE Len(min_solution.items) <= 2
                    => /\ pc' = "done"
                       /\ queue' = queue
                       /\ visited' = visited
                       /\ min_solution' = min_solution
                       /\ Len(result'.items) = Len(min_solution.items)
                       /\ \A i \in 1..Len(min_solution.items) :
                              str_lower(result'.items[i]) = min_solution.items[i]]_progress

C20_Witness ==
    /\ Returned
    /\ Searched
    /\ min_solution # None
    /\ Len(min_solution.items) = 2
    /\ queue # << >>
    /\ history = None

(***************************************************************************)
(* Two calls in progress on one instance.  Every name find_shortest_       *)
(* solution assigns is a local of the call, so each call has a frame of    *)
(* its own; the instance holds word_list only (line 17).  The variables    *)
(* above are the frame of the call that is running, suspended is the frame *)
(* of the other call, and a switch of thread exchanges the two.  A thread  *)
(* can be switched between any two statements; the steps here are as large *)
(* as the actions above because no statement of one call reads or writes   *)
(* what Switch leaves in place.                                            *)
(***************************************************************************)
\* The arguments of the calls that are run together.
ConcurrentCalls ==
    { [square |-> SampleSquare,    dictionary |-> py_list(<< AGBHCI, IJDKELF >>)],
      [square |-> MixedCaseSquare, dictionary |-> py_list(<< AGBHCI, IJDKELF >>)],
      [square |-> SampleSquare,    dictionary |-> py_list(<< AGBHCI, IJDKEL, LFA >>)],
      [square |-> MixedCaseSquare, dictionary |-> py_list(<< LFA, LFAL, LFA >>)],
      [square |-> AmbiguousSquare, dictionary |-> py_list(<< XYZ, ABC >>)],
      [square |-> SampleSquare,    dictionary |-> py_list(<< XYZ >>)],
      [square |-> SampleSquare,    dictionary |-> None] }

\* The frame of a call that has just been made.
new_frame(sq, d) ==
    [pc |-> "entry", square |-> sq, dictionary |-> d,
     playable_words |-> Unbound, original_case |-> Unbound,
     first_letter_map |-> Unbound, unique_letters_map |-> Unbound,
     all_puzzle_letters |-> Unbound, queue |-> Unbound, visited |-> Unbound,
     min_solution |-> Unbound, min_solution_len |-> Unbound,
     search_iterations |-> Unbound, result |-> None]

\* The frame of the call that is running.
running_frame ==
    [pc |-> pc, square |-> square, dictionary |-> dictionary,
     playable_words |-> playable_words, original_case |-> original_case,
     first_letter_map |-> first_letter_map,
     unique_letters_map |-> unique_letters_map,
     all_puzzle_letters |-> all_puzzle_letters, queue |-> queue,
     visited |-> visited, min_solution |-> min_solution,
     min_solution_len |-> min_solution_len,
     search_iterations |-> search_iterations, result |-> result]

other_caller(c) == IF c = "first" THEN "second" ELSE "first"

\* A call is made and runs on its own.
CallAlone ==
    /\ pc = "idle"
    /\ \E c \in ConcurrentCalls : Call(c.square, c.dictionary)

\* Once it has returned, another call is made and runs on its own as well.
CallAloneNext ==
    /\ pc = "done"
    /\ history = None
    /\ suspended = None
    /\ history' = [type |-> "returned", result |-> result,
                   square |-> square, dictionary |-> dictionary]
    /\ pc' = "entry"
    /\ result' = None
    /\ NoLocals
    /\ \E c \in ConcurrentCalls : square' = c.square /\ dictionary' = c.dictionary
    /\ UNCHANGED << word_list, app_vars, probe_vars, suspended >>

\* The two calls that ran on their own are made again, by two threads on the
\* same instance: the first is running and the second is about to start.
CallTogether ==
    /\ pc = "done"
    /\ history # None
    /\ suspended = None
    /\ history' = [type |-> "alone", first |-> history.result, second |-> result]
    /\ pc' = "entry"
    /\ square' = history.square
    /\ dictionary' = history.dictionary
    /\ result' = None
    /\ NoLocals
    /\ suspended' = [caller |-> "second", frame |-> new_frame(square, dictionary)]
    /\ UNCHANGED << word_list, app_vars, probe_vars >>

\* Variant: visited is kept on the instance, so the two calls share it.
SwitchSharingVisited ==
    /\ suspended # None
    /\ suspended' = [caller |-> other_caller(suspended.caller),
                     frame |-> running_frame]
    /\ pc' = suspended.frame.pc
    /\ square' = suspended.frame.square
    /\ dictionary' = suspended.frame.dictionary
    /\ playable_words' = suspended.frame.playable_words
    /\ original_case' = suspended.frame.original_case
    /\ first_letter_map' = suspended.frame.first_letter_map
    /\ unique_letters_map' = suspended.frame.unique_letters_map
    /\ all_puzzle_letters' = suspended.frame.all_puzzle_letters
    /\ queue' = suspended.frame.queue
    /\ min_solution' = suspended.frame.min_solution
    /\ min_solution_len' = suspended.frame.min_solution_len
    /\ search_iterations' = suspended.frame.search_iterations
    /\ result' = suspended.frame.result
    /\ UNCHANGED << word_list, app_vars, visited, history, probe_vars >>

\* The interpreter switches to the other thread: the running call is
\* suspended with its locals and the suspended call goes on with its own.
Switch ==
    /\ suspended # None
    /\ suspended' = [caller |-> other_caller(suspended.caller),
                     frame |-> running_frame]
    /\ pc' = suspended.frame.pc
    /\ square' = suspended.frame.square
    /\ dictionary' = suspended.frame.dictionary
    /\ playable_words' = suspended.frame.playable_words
    /\ original_case' = suspended.frame.original_case
    /\ first_letter_map' = suspended.frame.first_letter_map
    /\ unique_letters_map' = suspended.frame.unique_letters_map
    /\ all_puzzle_letters' = suspended.frame.all_puzzle_letters
    /\ queue' = suspended.frame.queue
    /\ visited' = suspended.frame.visited
    /\ min_solution' = suspended.frame.min_solution
    /\ min_solution_len' = suspended.frame.min_solution_len
    /\ search_iterations' = suspended.frame.search_iterations
    /\ result' = suspended.frame.result
    /\ UNCHANGED << word_list, app_vars, history, probe_vars >>

NextConcurrent ==
    \/ CallAlone
    \/ CallAloneNext
    \/ CallTogether
    \/ Switch
    \/ RejectDictionary
    \/ NoPlayableWords
    \/ BuildIndex
    \/ SkipDominated
    \/ SkipVisited
    \/ RecordSolution
    \/ DepthCapped
    \/ Expand
    \/ ReturnSolution
    \/ ReturnPartial

SpecConcurrent == Init /\ [][NextConcurrent]_vars

\* The frame of the first caller, whichever thread is running.
first_frame ==
    IF suspended.caller = "first" THEN suspended.frame ELSE running_frame

second_frame ==
    IF suspended.caller = "second" THEN suspended.frame ELSE running_frame

Together == suspended # None

\* C15: when two calls run on the same instance at the same time, with their
\* steps interleaved in any order, each returns what it returned when it ran
\* on its own.
C15_ConcurrentCallsDoNotInterfere ==
    Together
        => /\ first_frame.pc = "done" => first_frame.result = history.first
           /\ second_frame.pc = "done" => second_frame.result = history.second

C15_Witness ==
    /\ Together
    /\ first_frame.pc = "done"
    /\ second_frame.pc = "done"
    /\ first_frame.square # second_frame.square
    /\ first_frame.dictionary = second_frame.dictionary
    /\ Len(first_frame.result.items) = 2
    /\ Len(second_frame.result.items) = 2
    /\ first_frame.visited \cap second_frame.visited # {}

(***************************************************************************)
(* The visited set (lines 232-235)                                         *)
(***************************************************************************)
\* C21: a state dequeued while its key (its words in order, its used letters
\* sorted) is in visited is dropped: nothing is appended to the queue, and
\* visited and the recorded solution stay as they are.  A state that gets
\* past the two skips has its key put in visited before it is tested, so no
\* key is tested or expanded twice.
C21_VisitedStateIsDropped ==
    [][Dequeuing
         => IF state_key(Head(queue)) \in visited
            THEN /\ queue' = Tail(queue)
                 /\ visited' = visited
                 /\ min_solution' = min_solution
                 /\ min_solution_len' = min_solution_len
                 /\ pc' = "search"
            ELSE \/ dominated(Head(queue)) /\ visited' = visited
                 \/ visited' = visited \cup { state_key(Head(queue)) }]_progress

\* A dictionary with the same entry twice: the second seed was dropped.
C21_Witness ==
    /\ pc = "search"
    /\ min_solution = None
    /\ \E i, j \in 1..Len(playable_words) :
           i # j /\ playable_words[i] = playable_words[j]
    /\ search_iterations > Cardinality(visited)
    /\ queue # << >>
    /\ Len(Head(queue).words) = 2

(***************************************************************************)
(* The goal test (lines 237-251)                                           *)
(***************************************************************************)
\* The letters of the first k words of a chain.
letters_of_prefix(chain, k) == UNION { set_of(chain[i]) : i \in 1..k }

\* C22: a state that covers the puzzle is not expanded, so no chain in the
\* queue continues a chain whose letters already cover the puzzle.
C22_GoalStateIsNotExpanded ==
    InLoop
        => \A q \in 1..Len(queue) :
               \A k \in 1..(Len(queue[q].words) - 1) :
                   ~(all_puzzle_letters \subseteq letters_of_prefix(queue[q].words, k))

\* A covering chain was recorded that some playable word could continue.
C22_Witness ==
    /\ InLoop
    /\ min_solution # None
    /\ next_words_of([words |-> min_solution.items]) # << >>
    /\ visited # {}

(***************************************************************************)
(* The depth cap (lines 219, 253-255)                                      *)
(***************************************************************************)
\* C23: a chain of max_solution_length words is not expanded, so no chain in
\* the queue and no result returned has more than max_solution_length words.
C23_ChainsAreAtMostMaxSolutionLength ==
    /\ InLoop
         => \A q \in 1..Len(queue) : Len(queue[q].words) <= max_solution_length
    /\ Returned => Len(result.items) <= max_solution_length

\* A chain of max_solution_length words was dequeued that a playable word
\* could continue, and the call has returned.
C23_Witness ==
    /\ Returned
    /\ Searched
    /\ \E v \in visited :
          /\ Len(v[1]) = max_solution_length
          /\ next_words_of([words |-> v[1]]) # << >>

(***************************************************************************)
(* The expansion (lines 257-280) with more candidates than the branch      *)
(* limits: a dictionary of 27 words that all begin with L, two of which    *)
(* (LAL, LBEHL) end with L and so can be continued by every word.          *)
(***************************************************************************)
WideDictionary ==
    << << "L", "B", "E", "H", "L" >>, << "L", "A", "L" >>, << "L", "A", "D" >>,
       << "L", "A", "E" >>, << "L", "A", "F" >>, << "L", "A", "G" >>,
       << "L", "A", "H" >>, << "L", "A", "I" >>, << "L", "B", "D" >>,
       << "L", "B", "E" >>, << "L", "B", "F" >>, << "L", "B", "G" >>,
       << "L", "B", "H" >>, << "L", "B", "I" >>, << "L", "C", "D" >>,
       << "L", "C", "E" >>, << "L", "C", "F" >>, << "L", "C", "G" >>,
       << "L", "I" >>, << "L", "H" >>, << "L", "G" >>,
       << "L", "F" >>, << "L", "E" >>, << "L", "D" >>,
       << "L", "C" >>, << "L", "B" >>, << "L", "A" >> >>

BranchingCalls ==
    ConcurrentCalls
    \cup { [square |-> SampleSquare, dictionary |-> py_list(WideDictionary)] }

CallBranching ==
    /\ pc = "idle"
    /\ \E c \in BranchingCalls : Call(c.square, c.dictionary)

NextBranching ==
    \/ CallBranching
    \/ RejectDictionary
    \/ NoPlayableWords
    \/ BuildIndex
    \/ SkipDominated
    \/ SkipVisited
    \/ RecordSolution
    \/ DepthCapped
    \/ Expand
    \/ ReturnSolution
    \/ ReturnPartial

SpecBranching == Init /\ [][NextBranching]_vars

\* The states at the tail of the queue after a step that were not in it before.
appended == SubSeq(queue', Len(queue), Len(queue'))

\* The number of letters word w adds to the letters used so far.
new_letters(w, used) == Cardinality(set_of(w) \ used)

\* Candidate w is strictly better than candidate a for a state with these
\* used letters: more new letters, or as many and a shorter word.
better(w, a, used) ==
    \/ new_letters(w, used) > new_letters(a, used)
    \/ new_letters(w, used) = new_letters(a, used) /\ Len(w) < Len(a)

\* C24: a step of the loop appends at most 25 states to the queue when the
\* chain dequeued has one word and at most 15 otherwise; each appended state
\* is that chain followed by one word that begins with the last letter of
\* the chain; and no playable word beginning with that letter that was not
\* appended is strictly better than one that was.
C24_ExpansionIsLimitedAndPrioritized ==
    [][Dequeuing
         => LET current == Head(queue)
                last_letter == last_of(last_of(current.words))
                chosen == { appended[i].words[Len(appended[i].words)] :
                              i \in 1..Len(appended) }
                left_out == { playable_words[i] : i \in 1..Len(playable_words) }
                              \ chosen
            IN /\ Len(queue') >= Len(queue) - 1
               /\ SubSeq(queue', 1, Len(queue) - 1) = Tail(queue)
               /\ Len(appended) <= IF Len(current.words) = 1 THEN 25 ELSE 15
               /\ \A i \in 1..Len(appended) :
                      /\ Len(appended[i].words) = Len(current.words) + 1
                      /\ SubSeq(appended[i].words, 1, Len(current.words))
                           = current.words
                      /\ last_of(appended[i].words)[1] = last_letter
               /\ \A w \in left_out :
                      w[1] = last_letter
                          => \A a \in chosen : ~better(w, a, current.letters)]_progress

\* The state right after the chain (LAL, LBEHL) was expanded: 25 of the 27
\* candidates follow LBEHL and 15 of the 27 follow (LAL, LBEHL).
C24_Witness ==
    /\ pc = "search"
    /\ Len(playable_words) > 25
    /\ Cardinality({ q \in 1..Len(queue) : Len(queue[q].words) = 3 }) = 15
    /\ \E w \in { playable_words[i] : i \in 1..Len(playable_words) } :
           Cardinality({ q \in 1..Len(queue) :
                           /\ Len(queue[q].words) = 2
                           /\ queue[q].words[1] = w }) = 25

(***************************************************************************)
(* What the search leaves alone                                            *)
(***************************************************************************)
\* C25: while the loop runs and until the call returns, playable_words,
\* first_letter_map, unique_letters_map and original_case keep their values
\* (the set a seed shares with unique_letters_map is not updated when the seed
\* is extended), and square and dictionary are never changed by the call.
C25_IndexAndArgumentsAreNotModified ==
    [][IF pc = "idle"
       THEN TRUE
       ELSE /\ square' = square
            /\ dictionary' = dictionary
            /\ IF InLoop
               THEN /\ playable_words' = playable_words
                    /\ first_letter_map' = first_letter_map
                    /\ unique_letters_map' = unique_letters_map
                    /\ original_case' = original_case
               ELSE TRUE]_progress

\* A call has returned in which a seed was extended by a word with letters
\* of its own, and the cached set of the seed is still the set of its letters.
C25_Witness ==
    /\ Returned
    /\ Searched
    /\ \E v \in visited :
          /\ Len(v[1]) = 2
          /\ set_of(v[1][2]) \ set_of(v[1][1]) # {}
          /\ unique_letters_map[v[1][1]] = set_of(v[1][1])

(***************************************************************************)
(* The recorded solution (lines 226-251)                                   *)
(***************************************************************************)
\* C26: min_solution is assigned at most once in a call.  While it is None no
\* state dequeued so far covers the puzzle, so the chain recorded is the
\* first covering state dequeued; once recorded it is never replaced, and it
\* is the chain returned.
C26_SolutionIsRecordedOnce ==
    /\ [](IF InLoop
          THEN min_solution = None
                  => \A v \in visited :
                         ~(all_puzzle_letters
                             \subseteq letters_of_prefix(v[1], Len(v[1])))
          ELSE TRUE)
    /\ [][IF InLoop
          THEN IF min_solution = None
               THEN min_solution' # None
                       => /\ Dequeuing
                          /\ min_solution' = py_list(Head(queue).words)
                          /\ all_puzzle_letters \subseteq Head(queue).letters
               ELSE /\ min_solution' = min_solution
                    /\ pc' = "done"
                          => /\ Len(result'.items) = Len(min_solution.items)
                             /\ \A i \in 1..Len(min_solution.items) :
                                    str_lower(result'.items[i])
                                      = min_solution.items[i]
          ELSE TRUE]_progress

\* The call returned a chain of three words although another chain of three
\* of its words covers the puzzle as well.
C26_Witness ==
    /\ Returned
    /\ Searched
    /\ min_solution # None
    /\ queue = << >>
    /\ Len(result.items) = 3
    /\ \E i, j, k \in 1..Len(playable_words) :
          LET chain == << playable_words[i], playable_words[j], playable_words[k] >>
          IN /\ chain # min_solution.items
             /\ chain[2][1] = last_of(chain[1])
             /\ chain[3][1] = last_of(chain[2])
             /\ all_puzzle_letters \subseteq letters_of_prefix(chain, 3)

(***************************************************************************)
(* app.py: the cache, /api/puzzle and the daily job.  Each action is one   *)
(* statement (or one run of statements that touch no global) of one        *)
(* thread; the interpreter may switch threads between any two of them.     *)
(* A thread's pc names the line of app.py it is about to execute.          *)
(***************************************************************************)
\* formatted_data for the puzzle published after cutoff d (lines 122-132)
puzzle_of(d) == [type |-> "dict", day |-> d]

\* datetime.now().isoformat() taken after cutoff d and before the next one
isoformat_of(d) == [type |-> "str", day |-> d]

\* lines 40-54: data and time are set and the time is not before the cutoff
is_cache_valid ==
    IF cache.puzzle_data = None
    THEN FALSE
    ELSE IF cache.last_updated = None
         THEN FALSE
         ELSE cache.last_updated.day >= today

\* The thread is inside fetch_puzzle_data (lines 85-145).
Fetching(t) ==
    threads[t].pc \in { "line90", "line112", "line135", "line136", "line139" }

\* Where a thread goes on when fetch_puzzle_data returns: the finally clause
\* of get_puzzle_data, or nothing more for the scheduler's job.
after_fetch(t) == IF t = SchedulerThread THEN "idle" ELSE "line182"

solver_idle == UNCHANGED << word_list, solver_vars, probe_vars >>

\* lines 252-258: the cache file is loaded and, if it gave nothing valid,
\* fetch_puzzle_data is called once before any request is served; the
\* cache then holds today's puzzle, or nothing if that fetch failed.
InitApp ==
    /\ word_list = << >>
    /\ pc = "idle"
    /\ square = Unbound
    /\ dictionary = Unbound
    /\ playable_words = Unbound
    /\ original_case = Unbound
    /\ first_letter_map = Unbound
    /\ unique_letters_map = Unbound
    /\ all_puzzle_letters = Unbound
    /\ queue = Unbound
    /\ visited = Unbound
    /\ min_solution = Unbound
    /\ min_solution_len = Unbound
    /\ search_iterations = Unbound
    /\ result = None
    /\ history = None
    /\ probe = Unbound
    /\ probe0 = Unbound
    /\ suspended = None
    /\ cache \in { CacheEmpty,
                   [puzzle_data |-> puzzle_of(0), last_updated |-> isoformat_of(0)] }
    /\ scraping_in_progress = NotInGlobals
    /\ threads = [t \in Threads |-> idle_thread]
    /\ today = 0

\* line 148: a request for /api/puzzle is given to a thread
Request(t) ==
    /\ threads[t].pc = "idle"
    /\ threads' = [threads EXCEPT ![t] = [pc |-> "line153", response |-> "none",
                                          fetched |-> 0]]
    /\ UNCHANGED << cache, scraping_in_progress, today >>
    /\ solver_idle

\* line 153: if 'scraping_in_progress' not in globals()
CheckGlobals(t) ==
    /\ threads[t].pc = "line153"
    /\ threads' = [threads EXCEPT ![t].pc =
                      IF scraping_in_progress = NotInGlobals
                      THEN "line154" ELSE "line157"]
    /\ UNCHANGED << cache, scraping_in_progress, today >>
    /\ solver_idle

\* line 154: scraping_in_progress = False
InitFlag(t) ==
    /\ threads[t].pc = "line154"
    /\ scraping_in_progress' = "False"
    /\ threads' = [threads EXCEPT ![t].pc = "line157"]
    /\ UNCHANGED << cache, today >>
    /\ solver_idle

\* lines 157-159: the cache is valid, its data is the response
ServeCache(t) ==
    /\ threads[t].pc = "line157"
    /\ is_cache_valid
    /\ threads' = [threads EXCEPT ![t].pc = "idle", ![t].response = "cached"]
    /\ UNCHANGED << cache, scraping_in_progress, today >>
    /\ solver_idle

\* line 157: the cache is not valid
CacheMiss(t) ==
    /\ threads[t].pc = "line157"
    /\ ~is_cache_valid
    /\ threads' = [threads EXCEPT ![t].pc = "line162"]
    /\ UNCHANGED << cache, scraping_in_progress, today >>
    /\ solver_idle

\* lines 162-167: scraping_in_progress is true, the response is 'loading'
ReturnLoading(t) ==
    /\ threads[t].pc = "line162"
    /\ scraping_in_progress = "True"
    /\ threads' = [threads EXCEPT ![t].pc = "idle", ![t].response = "loading"]
    /\ UNCHANGED << cache, scraping_in_progress, today >>
    /\ solver_idle

\* line 162: scraping_in_progress is false
FlagIsClear(t) ==
    /\ threads[t].pc = "line162"
    /\ scraping_in_progress # "True"
    /\ threads' = [threads EXCEPT ![t].pc = "line170"]
    /\ UNCHANGED << cache, scraping_in_progress, today >>
    /\ solver_idle

\* lines 170-173: scraping_in_progress = True, fetch_puzzle_data() is called
SetFlag(t) ==
    /\ threads[t].pc = "line170"
    /\ scraping_in_progress' = "True"
    /\ threads' = [threads EXCEPT ![t].pc = "line90"]
    /\ UNCHANGED << cache, today >>
    /\ solver_idle

\* lines 89-108 when the scraper returns four sides and a dictionary
ScrapeSucceeds(t) ==
    /\ threads[t].pc = "line90"
    /\ threads' = [threads EXCEPT ![t].pc = "line112", ![t].fetched = today]
    /\ UNCHANGED << cache, scraping_in_progress, today >>
    /\ solver_idle

\* Variant: a fetch that fails empties the cache.
ScrapeFailsAndClearsCache(t) ==
    /\ threads[t].pc = "line90"
    /\ threads' = [threads EXCEPT ![t].pc = after_fetch(t),
                                  ![t].response = "error"]
    /\ cache' = CacheEmpty
    /\ UNCHANGED << scraping_in_progress, today >>
    /\ solver_idle

\* lines 89-108, 143-145: the scraper raises, or the sides are missing or not
\* four, or the dictionary is missing or empty; {'error': ...} is returned
ScrapeFails(t) ==
    /\ threads[t].pc = "line90"
    /\ threads' = [threads EXCEPT ![t].pc = after_fetch(t),
                                  ![t].response = "error"]
    /\ UNCHANGED << cache, scraping_in_progress, today >>
    /\ solver_idle

\* lines 110-132: the solver returns and formatted_data is built
SolverReturns(t) ==
    /\ threads[t].pc = "line112"
    /\ threads' = [threads EXCEPT ![t].pc = "line135"]
    /\ UNCHANGED << cache, scraping_in_progress, today >>
    /\ solver_idle

\* lines 110-112, 143-145: the solver raises; {'error': ...} is returned
SolverRaises(t) ==
    /\ threads[t].pc = "line112"
    /\ threads' = [threads EXCEPT ![t].pc = after_fetch(t),
                                  ![t].response = "error"]
    /\ UNCHANGED << cache, scraping_in_progress, today >>
    /\ solver_idle

\* line 135: cache['puzzle_data'] = formatted_data
StoreData(t) ==
    /\ threads[t].pc = "line135"
    /\ cache' = [cache EXCEPT !.puzzle_data = puzzle_of(threads[t].fetched)]
    /\ threads' = [threads EXCEPT ![t].pc = "line136"]
    /\ UNCHANGED << scraping_in_progress, today >>
    /\ solver_idle

\* line 136: cache['last_updated'] = datetime.now().isoformat()
StoreTime(t) ==
    /\ threads[t].pc = "line136"
    /\ cache' = [cache EXCEPT !.last_updated = isoformat_of(today)]
    /\ threads' = [threads EXCEPT ![t].pc = "line139"]
    /\ UNCHANGED << scraping_in_progress, today >>
    /\ solver_idle

\* lines 139-142: the cache is written to its file (errors are caught in
\* save_cache_to_file) and formatted_data is returned
SaveAndReturn(t) ==
    /\ threads[t].pc = "line139"
    /\ threads' = [threads EXCEPT ![t].pc = after_fetch(t),
                                  ![t].response = "data"]
    /\ UNCHANGED << cache, scraping_in_progress, today >>
    /\ solver_idle

\* lines 174-182: finally: scraping_in_progress = False; the response is sent
Finally(t) ==
    /\ threads[t].pc = "line182"
    /\ scraping_in_progress' = "False"
    /\ threads' = [threads EXCEPT ![t].pc = "idle"]
    /\ UNCHANGED << cache, today >>
    /\ solver_idle

\* 3:05 AM US/Eastern: the cutoff of is_cache_valid (line 47) passes and the
\* scheduler runs fetch_puzzle_data on its thread (lines 236-244), unless the
\* run of the day before is still going (one instance of a job at a time).
Cutoff ==
    /\ today < MaxDay
    /\ today' = today + 1
    /\ threads' = IF threads[SchedulerThread].pc = "idle"
                  THEN [threads EXCEPT ![SchedulerThread] =
                           [pc |-> "line90", response |-> "none", fetched |-> 0]]
                  ELSE threads
    /\ UNCHANGED << cache, scraping_in_progress >>
    /\ solver_idle

NextApp ==
    \/ Cutoff
    \/ \E t \in RequestThreads : Request(t)
    \/ \E t \in RequestThreads : CheckGlobals(t)
    \/ \E t \in RequestThreads : InitFlag(t)
    \/ \E t \in RequestThreads : ServeCache(t)
    \/ \E t \in RequestThreads : CacheMiss(t)
    \/ \E t \in RequestThreads : ReturnLoading(t)
    \/ \E t \in RequestThreads : FlagIsClear(t)
    \/ \E t \in RequestThreads : SetFlag(t)
    \/ \E t \in RequestThreads : Finally(t)
    \/ \E t \in Threads : ScrapeSucceeds(t)
    \/ \E t \in Threads : ScrapeFails(t)
    \/ \E t \in Threads : SolverReturns(t)
    \/ \E t \in Threads : SolverRaises(t)
    \/ \E t \in Threads : StoreData(t)
    \/ \E t \in Threads : StoreTime(t)
    \/ \E t \in Threads : SaveAndReturn(t)

SpecApp == InitApp /\ [][NextApp]_vars

\* A request thread has set the flag and not yet reset it (lines 170-182).
HoldsFlag(t) == Fetching(t) \/ threads[t].pc = "line182"

\* C27: at most one thread is inside fetch_puzzle_data at any time, and
\* scraping_in_progress is not true unless a request is between setting it
\* and resetting it.
C27_OneFetchAtATime ==
    /\ Cardinality({ t \in Threads : Fetching(t) }) <= 1
    /\ scraping_in_progress = "True" => \E t \in RequestThreads : HoldsFlag(t)

\* C28: the cache is written only by a thread at line 135 or line 136, that
\* is after the solver has returned, and each of the two writes one key; a
\* thread about to return formatted_data has written both; the step on which
\* a fetch returns an error leaves the cache as it was, and so did every step
\* of that fetch before it.
C28_FailedFetchLeavesCache ==
    /\ [](\A t \in Threads :
              threads[t].pc = "line139"
                  => cache.puzzle_data # None /\ cache.last_updated # None)
    /\ [][/\ cache' # cache
             => \E t \in Threads :
                   \/ /\ threads[t].pc = "line135"
                      /\ threads'[t].pc = "line136"
                      /\ cache'.last_updated = cache.last_updated
                   \/ /\ threads[t].pc = "line136"
                      /\ threads'[t].pc = "line139"
                      /\ cache'.puzzle_data = cache.puzzle_data
          /\ \A t \in Threads :
                 (Fetching(t) /\ threads'[t].response = "error")
                     => /\ cache' = cache
                        /\ threads[t].pc \in { "line90", "line112" }]_app_vars

\* A fetch has failed after a cutoff while the cache held the puzzle of the
\* day before, and the cache still holds it.
C28_Witness ==
    /\ today >= 1
    /\ cache = [puzzle_data |-> puzzle_of(0), last_updated |-> isoformat_of(0)]
    /\ \E t \in Threads :
          /\ threads[t].response = "error"
          /\ threads[t].pc = after_fetch(t)
    /\ \A t \in Threads : ~Fetching(t)

====
